---- MODULE Spec2Model ----
(***************************************************************************)
(* Model of src/aimed.py, the prescription verifier: the drug table, the   *)
(* extractor (regex word-boundary search), the interaction / dosage /      *)
(* alternative resolvers and the console flow of main().                   *)
(*                                                                         *)
(* A Python str is a sequence of one-character strings.  The character     *)
(* SUPERSCRIPT TWO (U+00B2) is written "U+00B2" and is one character; the  *)
(* arrows and dashes of the printed texts are written in ASCII.            *)
(***************************************************************************)
EXTENDS Integers, Sequences, FiniteSets, TLC

VARIABLES
  DRUG_DB,            \* the module-level drug table (aimed.py:8)
  pc,                 \* position of the running call / of main()
  prescription_text,  \* text argument / main's prescription_text
  age_str,            \* main's age_str (last age entry, stripped)
  age,                \* age argument / main's age
  alcohol_use,        \* include_alcohol argument / main's alcohol_use
  drugs,              \* extract_drugs result / drugs argument
  interactions,       \* find_interactions result
  dosages,            \* dosage_suggestions result
  alternatives,       \* alternatives_for result
  stdout              \* what main() has printed so far

vars == <<DRUG_DB, pc, prescription_text, age_str, age, alcohol_use, drugs,
          interactions, dosages, alternatives, stdout>>

----------------------------------------------------------------------------
(* Bounds *)
MaxPieces  == 3   \* a text is at most this many pieces (words / separators)
MaxDrugs   == 4   \* length of a drugs list handed to a resolver
MaxEntries == 3   \* age entries typed before the model stops a run

----------------------------------------------------------------------------
(* Characters *)
UpperLetters == <<"A","B","C","D","E","F","G","H","I","J","K","L","M",
                  "N","O","P","Q","R","S","T","U","V","W","X","Y","Z">>
LowerLetters == <<"a","b","c","d","e","f","g","h","i","j","k","l","m",
                  "n","o","p","q","r","s","t","u","v","w","x","y","z">>
DecimalDigits == <<"0","1","2","3","4","5","6","7","8","9">>

Range(s) == {s[i] : i \in DOMAIN s}

IndexOf(s, c) == CHOOSE i \in DOMAIN s : s[i] = c

\* str.lower() on one character
LowerChar(c) ==
  IF c \in Range(UpperLetters) THEN LowerLetters[IndexOf(UpperLetters, c)] ELSE c

\* the comparison key of re.IGNORECASE for the characters of the model
FoldChar(c) == LowerChar(c)

\* str.isalnum() on one character
IsAlnum(c) == c \in Range(UpperLetters) \cup Range(LowerLetters)
                 \cup Range(DecimalDigits) \cup {"U+00B2"}

\* faulty variant: the hyphen counted as part of a word
IsWordChar_Hyphen(c) == IsAlnum(c) \/ c \in {"_", "-"}

\* the regex class \w on a str pattern: alphanumeric or underscore
IsWordChar(c) == IsAlnum(c) \/ c = "_"

\* str.isspace() on one character
IsSpace(c) == c \in {" ", "\t"}

----------------------------------------------------------------------------
(* The knowledge base *)
Aspirin     == <<"A","s","p","i","r","i","n">>
Paracetamol == <<"P","a","r","a","c","e","t","a","m","o","l">>
Ibuprofen   == <<"I","b","u","p","r","o","f","e","n">>
Alcohol     == <<"A","l","c","o","h","o","l">>
Naproxen    == <<"N","a","p","r","o","x","e","n">>

\* a Python dict is an insertion-ordered list of <<key, value>> items
DictKeys(d) == [i \in DOMAIN d |-> d[i][1]]

DictHas(d, k) == \E i \in DOMAIN d : d[i][1] = k

DictGet(d, k) == d[CHOOSE i \in DOMAIN d : d[i][1] = k][2]

\* d[k] = v : replaces the value of an existing key in place, else appends
DictSet(d, k, v) ==
  IF DictHas(d, k)
  THEN [i \in DOMAIN d |-> IF d[i][1] = k THEN <<k, v>> ELSE d[i]]
  ELSE Append(d, <<k, v>>)

\* Python's None, a value no text equals
None == "<None>"

\* rec.get(field): None when the record has no such field
RecGet(rec, field) == IF field \in DOMAIN rec THEN rec[field] ELSE None

\* truth value of a str-or-None
Truthy(v) == v # None /\ v # ""

\* DRUG_DB as shipped, aimed.py:8-24
ShippedDB ==
  << <<Aspirin,     [dosage_child |-> "Not recommended",
                     dosage_adult |-> "75-325 mg/day",
                     alternative  |-> "Clopidogrel"]>>,
     <<Paracetamol, [dosage_child |-> "10-15 mg/kg every 4-6h",
                     dosage_adult |-> "500 mg every 6h",
                     alternative  |-> "Acetaminophen"]>>,
     <<Ibuprofen,   [dosage_child |-> "5-10 mg/kg every 6-8h",
                     dosage_adult |-> "200-400 mg every 6h",
                     alternative  |-> "Naproxen"]>> >>

\* frozenset([a, b])
frozenset(a, b) == {a, b}

\* INTERACTIONS, aimed.py:28-31
INTERACTIONS ==
  ( frozenset(Aspirin, Ibuprofen)   :> "^ GI bleeding risk" )
  @@
  ( frozenset(Paracetamol, Alcohol) :> "^ Liver toxicity risk" )

----------------------------------------------------------------------------
(* extract_drugs, aimed.py:33-48 *)

\* the regex assertion \b at the gap after the first p characters of text:
\* exactly one of the two neighbours is a word character (an edge is not)
AtWordBoundary(text, p) ==
  LET before == p >= 1 /\ IsWordChar(text[p])
      after  == p < Len(text) /\ IsWordChar(text[p + 1])
  IN  before # after

\* the escaped literal matches the characters after the first p, ignoring case
LiteralAt(text, p, lit) ==
  /\ p + Len(lit) <= Len(text)
  /\ \A k \in 1..Len(lit) : FoldChar(text[p + k]) = FoldChar(lit[k])

\* the pattern matches with the drug name starting after the first p characters
MatchAt(drug, text, p) ==
  /\ AtWordBoundary(text, p)
  /\ LiteralAt(text, p, drug)
  /\ AtWordBoundary(text, p + Len(drug))

\* faulty variant: the pattern without its trailing \b
search_NoTrailingBoundary(drug, text) ==
  \E p \in 0..Len(text) : AtWordBoundary(text, p) /\ LiteralAt(text, p, drug)

\* re.search(rf"\b{re.escape(drug)}\b", text, flags=re.IGNORECASE) is not None
search(drug, text) == \E p \in 0..Len(text) : MatchAt(drug, text, p)

\* where the leftmost match starts (re.search scans left to right)
FirstMatch(drug, text) ==
  CHOOSE p \in 0..Len(text) :
     MatchAt(drug, text, p) /\ \A q \in 0..(p - 1) : ~MatchAt(drug, text, q)

\* lines 35-38: the loop over DRUG_DB.keys(), from key number i on
RECURSIVE FoundFrom(_, _, _)
FoundFrom(keys, i, text) ==
  IF i > Len(keys) THEN <<>>
  ELSE (IF search(keys[i], text) THEN <<keys[i]>> ELSE <<>>)
       \o FoundFrom(keys, i + 1, text)

\* lines 42-47: deduplicate while preserving order, from element i on
RECURSIVE Unique(_, _, _)
Unique(found, i, seen) ==
  IF i > Len(found) THEN <<>>
  ELSE IF found[i] \notin seen
       THEN <<found[i]>> \o Unique(found, i + 1, seen \cup {found[i]})
       ELSE Unique(found, i + 1, seen)

\* faulty variant: the sentinel also inferred from a mention in the text
extract_drugs_TextAlcohol(text, include_alcohol) ==
  LET matched == FoundFrom(DictKeys(DRUG_DB), 1, text)
      found   == IF include_alcohol \/ search(Alcohol, text)
                 THEN Append(matched, Alcohol) ELSE matched
  IN  Unique(found, 1, {})

\* one entry per match of each key, as a loop over re.finditer would append
RECURSIVE PerMatchFrom(_, _, _)
PerMatchFrom(keys, i, text) ==
  IF i > Len(keys) THEN <<>>
  ELSE [k \in 1..Cardinality({p \in 0..Len(text) : MatchAt(keys[i], text, p)})
          |-> keys[i]]
       \o PerMatchFrom(keys, i + 1, text)

\* faulty variant: an entry per match and no deduplication
extract_drugs_NoDedup(text, include_alcohol) ==
  LET matched == PerMatchFrom(DictKeys(DRUG_DB), 1, text)
  IN  IF include_alcohol THEN Append(matched, Alcohol) ELSE matched

\* faulty variant: the matched names put in the order of their first match
extract_drugs_TextOrder(text, include_alcohol) ==
  LET matched == FoundFrom(DictKeys(DRUG_DB), 1, text)
      sorted  == CHOOSE s \in [DOMAIN matched -> Range(matched)] :
                   /\ Range(s) = Range(matched)
                   /\ \A i, j \in DOMAIN s :
                        i < j => FirstMatch(s[i], text) < FirstMatch(s[j], text)
      found   == IF include_alcohol THEN Append(sorted, Alcohol) ELSE sorted
  IN  Unique(found, 1, {})

extract_drugs(text, include_alcohol) ==
  LET matched == FoundFrom(DictKeys(DRUG_DB), 1, text)
      found   == IF include_alcohol THEN Append(matched, Alcohol) ELSE matched
  IN  Unique(found, 1, {})

----------------------------------------------------------------------------
(* find_interactions, aimed.py:50-59 *)

\* f"{a} + {b} -> {INTERACTIONS[pair]}", as the parts the f-string joins
Render(a, b, desc) == <<a, " + ", b, " -> ", desc>>

\* faulty variant: the names rendered in a fixed order of the pair, not list order
PairEntry_RuleOrder(ds, i, j) ==
  LET pair  == frozenset(ds[i], ds[j])
      first == IF ds[j] \in {Aspirin, Paracetamol} THEN ds[j] ELSE ds[i]
      other == IF first = ds[i] THEN ds[j] ELSE ds[i]
  IN  IF pair \in DOMAIN INTERACTIONS
      THEN <<Render(first, other, INTERACTIONS[pair])>>
      ELSE <<>>

\* the body of the inner loop for one (i, j): the entry appended, if any
PairEntry(ds, i, j) ==
  LET pair == frozenset(ds[i], ds[j])
  IN  IF pair \in DOMAIN INTERACTIONS
      THEN <<Render(ds[i], ds[j], INTERACTIONS[pair])>>
      ELSE <<>>

\* for j in range(j, n), for the fixed i
RECURSIVE InnerLoop(_, _, _)
InnerLoop(ds, i, j) ==
  IF j > Len(ds) THEN <<>>
  ELSE PairEntry(ds, i, j) \o InnerLoop(ds, i, j + 1)

\* for i in range(i, n): for j in range(i + 1, n)
RECURSIVE OuterLoop(_, _)
OuterLoop(ds, i) ==
  IF i > Len(ds) THEN <<>>
  ELSE InnerLoop(ds, i, i + 1) \o OuterLoop(ds, i + 1)

find_interactions(ds) == OuterLoop(ds, 1)

----------------------------------------------------------------------------
(* dosage_suggestions, aimed.py:61-68 *)

\* faulty variant: 18 counted as a child
AgeCategory_Inclusive(a) == IF a <= 18 THEN "dosage_child" ELSE "dosage_adult"

\* line 63
AgeCategory(a) == IF a < 18 THEN "dosage_child" ELSE "dosage_adult"

\* lines 65-67, from element i on, out being the dict built so far
RECURSIVE DosageLoop(_, _, _, _)
DosageLoop(ds, i, cat, out) ==
  IF i > Len(ds) THEN out
  ELSE IF DictHas(DRUG_DB, ds[i])
       THEN DosageLoop(ds, i + 1, cat,
                       DictSet(out, ds[i], DictGet(DRUG_DB, ds[i])[cat]))
       ELSE DosageLoop(ds, i + 1, cat, out)

\* faulty variant: an age outside 1..120 refused with an empty result
dosage_suggestions_Reject(ds, a) ==
  IF a < 1 \/ a > 120 THEN <<>> ELSE DosageLoop(ds, 1, AgeCategory(a), <<>>)

dosage_suggestions(ds, a) == DosageLoop(ds, 1, AgeCategory(a), <<>>)

----------------------------------------------------------------------------
(* alternatives_for, aimed.py:70-77 *)

\* faulty variant: no fallback for a missing or empty alternative
AlternativeOf_NoFallback(d) == RecGet(DictGet(DRUG_DB, d), "alternative")

\* lines 75-76: the value stored for a drug of the table
AlternativeOf(d) ==
  LET alt == RecGet(DictGet(DRUG_DB, d), "alternative")
  IN  IF Truthy(alt) THEN alt ELSE "No alternative"

\* lines 73-76, from element i on
RECURSIVE AlternativesLoop(_, _, _)
AlternativesLoop(ds, i, out) ==
  IF i > Len(ds) THEN out
  ELSE IF DictHas(DRUG_DB, ds[i])
       THEN AlternativesLoop(ds, i + 1, DictSet(out, ds[i], AlternativeOf(ds[i])))
       ELSE AlternativesLoop(ds, i + 1, out)

alternatives_for(ds) == AlternativesLoop(ds, 1, <<>>)

----------------------------------------------------------------------------
(* str helpers used by main *)

RECURSIVE LStrip(_)
LStrip(s) == IF s # <<>> /\ IsSpace(Head(s)) THEN LStrip(Tail(s)) ELSE s

RECURSIVE RStrip(_)
RStrip(s) ==
  IF s # <<>> /\ IsSpace(s[Len(s)]) THEN RStrip(SubSeq(s, 1, Len(s) - 1)) ELSE s

\* str.strip()
strip(s) == RStrip(LStrip(s))

\* str.lower()
lower(s) == [i \in DOMAIN s |-> LowerChar(s[i])]

\* str.startswith(prefix)
startswith(s, prefix) ==
  Len(prefix) <= Len(s) /\ SubSeq(s, 1, Len(prefix)) = prefix

\* str.isdigit(): non-empty and every character is a digit character;
\* SUPERSCRIPT TWO is a digit character that is not a decimal digit
isdigit(s) ==
  s # <<>> /\ \A i \in DOMAIN s : s[i] \in Range(DecimalDigits) \cup {"U+00B2"}

\* int(s) for an s that passed isdigit(): ValueError unless all decimal
IntRaises(s) == \E i \in DOMAIN s : s[i] \notin Range(DecimalDigits)

RECURSIVE int(_)
int(s) ==
  IF s = <<>> THEN 0
  ELSE 10 * int(SubSeq(s, 1, Len(s) - 1))
       + (IndexOf(DecimalDigits, s[Len(s)]) - 1)

----------------------------------------------------------------------------
(* print_table, aimed.py:79-92: the lines it prints, each a tuple of parts *)

Max(S) == CHOOSE m \in S : \A x \in S : x <= m

\* f"{k:<{width}}"
PadLeft(k, width) ==
  k \o [i \in 1..(IF width > Len(k) THEN width - Len(k) ELSE 0) |-> " "]

\* kind is "dict" or "list", the isinstance() test of lines 84 and 88
print_table(title, kind, rows) ==
  LET header == << <<>>, <<"=== ", title, " ===">> >>
  IN  IF rows = <<>> THEN header \o << <<"None">> >>
      ELSE IF kind = "dict"
      THEN LET width == Max({Len(rows[i][1]) : i \in DOMAIN rows})
           IN  header \o [i \in DOMAIN rows |->
                            <<PadLeft(rows[i][1], width), " : ", rows[i][2]>>]
      ELSE header \o [i \in DOMAIN rows |-> <<"- ", rows[i]>>]

----------------------------------------------------------------------------
(* Console input of main *)

TextScenario1 == <<"T","a","k","e"," ","A","s","p","i","r","i","n"," ","a","n","d"," ","I","b","u","p","r","o","f","e","n"," ","d","a","i","l","y">>  \* "Take Aspirin and Ibuprofen daily"

TextScenario2 == <<" "," ","P","a","r","a","c","e","t","a","m","o","l"," ","o","n","l","y"," ">>  \* "  Paracetamol only "

TextNoDrug == <<"r","e","s","t"," ","a","n","d"," ","f","l","u","i","d","s">>  \* "rest and fluids"

TextReversed == <<"i","b","u","p","r","o","f","e","n",","," ","t","h","e","n"," ","A","S","P","I","R","I","N","-","l","i","k","e",";"," ","n","o"," ","a","l","c","o","h","o","l">>  \* "ibuprofen, then ASPIRIN-like; no alcohol"

TextEmpty == <<>>  \* ""

\* lines typed at "Enter prescription text: "
TextLines == {TextScenario1, TextScenario2, TextNoDrug, TextReversed, TextEmpty}

\* lines typed at "Enter age (1-120): "
AgeLines ==
  { <<>>,
    <<"0">>,
    <<"1">>,
    <<"1","7">>,
    <<"1","8">>,
    <<"0","1","8">>,
    <<"1","2","0">>,
    <<"1","2","1">>,
    <<" ","1","8"," ">>,
    <<"-","5">>,
    <<"a","b","c">>,
    <<"1",".","5">>,
    <<"U+00B2">> }

\* lines typed at "Alcohol use? (y/n): "
AlcoholLines ==
  { <<"y">>,
    <<" ","Y","e","s">>,
    <<"n">>,
    <<>>,
    <<"n","o",","," ","y","e","s">>,
    <<"Y"," ">> }

----------------------------------------------------------------------------
(* Input sets of the function-level specifications *)

Pieces ==
  { Aspirin,
    <<"a","S","P","I","R","I","N">>,
    <<"p","a","r","a","c","e","t","a","m","o","l">>,
    <<"I","B","U","P","R","O","F","E","N">>,
    Alcohol,
    <<"l","i","k","e">>,
    <<"1">>, <<"_">>, <<"-">>, <<" ">> }

RECURSIVE Flatten(_)
Flatten(ps) == IF ps = <<>> THEN <<>> ELSE Head(ps) \o Flatten(Tail(ps))

\* every text of at most MaxPieces pieces
Texts == UNION { {Flatten(ps) : ps \in [1..k -> Pieces]} : k \in 0..MaxPieces }

Names == {Aspirin, Paracetamol, Ibuprofen, Alcohol, Naproxen}

\* every list of at most MaxDrugs names, repetitions included
DrugLists == UNION { [1..k -> Names] : k \in 0..MaxDrugs }

Ages == {-1, 0, 1, 17, 18, 19, 120, 121}

\* the shipped table, and the table expanded by one record whose
\* alternative is missing, empty or set
Expanded(rec) == Append(ShippedDB, <<Naproxen, rec>>)

Tables ==
  { ShippedDB,
    Expanded([dosage_child |-> "5 mg/kg every 12h",
              dosage_adult |-> "250 mg every 12h"]),
    Expanded([dosage_child |-> "5 mg/kg every 12h",
              dosage_adult |-> "250 mg every 12h",
              alternative  |-> ""]),
    Expanded([dosage_child |-> "5 mg/kg every 12h",
              dosage_adult |-> "250 mg every 12h",
              alternative  |-> "Ibuprofen"]) }

----------------------------------------------------------------------------
(* main, aimed.py:94-120 *)

Banner      == <<"AI Prescription Verifier (Demo) - Plain Python">>
TextPrompt  == <<"Enter prescription text: ">>
AgePrompt   == <<"Enter age (1-120): ">>
AlcPrompt   == <<"Alcohol use? (y/n): ">>
AgeError    == <<"Please enter a valid number between 1 and 120.">>
Traceback   == <<"ValueError: invalid literal for int() with base 10">>
NoDrugs     == <<"No drugs detected">>
NoInteract  == <<"No major interactions found">>
InfoKey     == <<"I","n","f","o">>

\* how many times the age prompt has been printed
AgePrompts == Cardinality({i \in DOMAIN stdout : stdout[i] = AgePrompt})

\* line 95 has run (the banner ends in a newline of its own)
Init ==
  /\ DRUG_DB = ShippedDB
  /\ pc = "read_text"
  /\ prescription_text = <<>>
  /\ age_str = <<>>
  /\ age = 0
  /\ alcohol_use = FALSE
  /\ drugs = <<>>
  /\ interactions = <<>>
  /\ dosages = <<>>
  /\ alternatives = <<>>
  /\ stdout = <<Banner, <<>>>>

\* line 98
ReadText ==
  /\ pc = "read_text"
  /\ \E line \in TextLines : prescription_text' = strip(line)
  /\ stdout' = Append(stdout, TextPrompt)
  /\ pc' = "read_age"
  /\ UNCHANGED <<DRUG_DB, age_str, age, alcohol_use, drugs, interactions,
                 dosages, alternatives>>

\* lines 100-106: one pass of the while loop for the entry typed
AgeEntry(line) ==
  LET entry == strip(line)
      out   == Append(stdout, AgePrompt)
  IN  /\ age_str' = entry
      /\ IF ~isdigit(entry)
         THEN /\ stdout' = Append(out, AgeError)
              /\ UNCHANGED <<pc, age>>
         ELSE IF IntRaises(entry)
         THEN /\ stdout' = Append(out, Traceback)
              /\ pc' = "ValueError"
              /\ UNCHANGED age
         ELSE /\ age' = int(entry)
              /\ IF 1 <= int(entry) /\ int(entry) <= 120
                 THEN /\ pc' = "read_alcohol"
                      /\ stdout' = out
                 ELSE /\ pc' = pc
                      /\ stdout' = Append(out, AgeError)

ReadAge ==
  /\ pc = "read_age"
  /\ AgePrompts < MaxEntries
  /\ \E line \in AgeLines : AgeEntry(line)
  /\ UNCHANGED <<DRUG_DB, prescription_text, alcohol_use, drugs, interactions,
                 dosages, alternatives>>

\* lines 107-108
ReadAlcohol ==
  /\ pc = "read_alcohol"
  /\ \E line \in AlcoholLines :
        alcohol_use' = startswith(lower(strip(line)), <<"y">>)
  /\ stdout' = Append(stdout, AlcPrompt)
  /\ pc' = "extract_drugs"
  /\ UNCHANGED <<DRUG_DB, prescription_text, age_str, age, drugs, interactions,
                 dosages, alternatives>>

\* line 111
Extract ==
  /\ pc = "extract_drugs"
  /\ drugs' = extract_drugs(prescription_text, alcohol_use)
  /\ pc' = "find_interactions"
  /\ UNCHANGED <<DRUG_DB, prescription_text, age_str, age, alcohol_use,
                 interactions, dosages, alternatives, stdout>>

\* line 112
FindInteractions ==
  /\ pc = "find_interactions"
  /\ interactions' = find_interactions(drugs)
  /\ pc' = "dosage_suggestions"
  /\ UNCHANGED <<DRUG_DB, prescription_text, age_str, age, alcohol_use, drugs,
                 dosages, alternatives, stdout>>

\* line 113
DosageSuggestions ==
  /\ pc = "dosage_suggestions"
  /\ dosages' = dosage_suggestions(drugs, age)
  /\ pc' = "alternatives_for"
  /\ UNCHANGED <<DRUG_DB, prescription_text, age_str, age, alcohol_use, drugs,
                 interactions, alternatives, stdout>>

\* line 114
AlternativesFor ==
  /\ pc = "alternatives_for"
  /\ alternatives' = alternatives_for(drugs)
  /\ pc' = "output"
  /\ UNCHANGED <<DRUG_DB, prescription_text, age_str, age, alcohol_use, drugs,
                 interactions, dosages, stdout>>

\* lines 117-120
Output ==
  /\ pc = "output"
  /\ stdout' = stdout
       \o print_table("Drugs Detected", "list",
                      IF drugs # <<>> THEN drugs ELSE <<NoDrugs>>)
       \o print_table("Potential Interactions", "list",
                      IF interactions # <<>> THEN interactions
                      ELSE <<NoInteract>>)
       \o print_table("Dosage Suggestions", "dict",
                      IF dosages # <<>> THEN dosages
                      ELSE << <<InfoKey, "No dosage information available">> >>)
       \o print_table("Alternatives", "dict",
                      IF alternatives # <<>> THEN alternatives
                      ELSE << <<InfoKey, "No alternatives found">> >>)
  /\ pc' = "done"
  /\ UNCHANGED <<DRUG_DB, prescription_text, age_str, age, alcohol_use, drugs,
                 interactions, dosages, alternatives>>

Next ==
  \/ ReadText
  \/ ReadAge
  \/ ReadAlcohol
  \/ Extract
  \/ FindInteractions
  \/ DosageSuggestions
  \/ AlternativesFor
  \/ Output

Spec == Init /\ [][Next]_vars

----------------------------------------------------------------------------
(* extract_drugs called with any text and flag *)

InitExtract ==
  /\ DRUG_DB = ShippedDB
  /\ pc = "extract_drugs"
  /\ prescription_text \in Texts
  /\ alcohol_use \in BOOLEAN
  /\ age_str = <<>>
  /\ age = 0
  /\ drugs = <<>>
  /\ interactions = <<>>
  /\ dosages = <<>>
  /\ alternatives = <<>>
  /\ stdout = <<>>

NextExtract == Extract

SpecExtract == InitExtract /\ [][NextExtract]_vars

----------------------------------------------------------------------------
(* the three resolvers called with any list, age and table *)

InitResolve ==
  /\ DRUG_DB \in Tables
  /\ pc = "find_interactions"
  /\ prescription_text = <<>>
  /\ alcohol_use = FALSE
  /\ age_str = <<>>
  /\ age \in Ages
  /\ drugs \in DrugLists
  /\ interactions = <<>>
  /\ dosages = <<>>
  /\ alternatives = <<>>
  /\ stdout = <<>>

NextResolve ==
  \/ FindInteractions
  \/ DosageSuggestions
  \/ AlternativesFor

SpecResolve == InitResolve /\ [][NextResolve]_vars

----------------------------------------------------------------------------
(* Properties of extract_drugs, checked under SpecExtract *)

\* extract_drugs has returned into drugs
Extracted == pc = "find_interactions"

KBNames == Range(DictKeys(DRUG_DB))

Positions(text) == 0..Len(text)

\* the character before / after an occurrence of D that starts after the
\* first p characters is alphanumeric
LeftAlnum(text, p)     == p >= 1 /\ IsAlnum(text[p])
RightAlnum(text, p, D) == p + Len(D) < Len(text) /\ IsAlnum(text[p + Len(D) + 1])

\* the same, for word characters (alphanumeric or underscore)
LeftWord(text, p)     == p >= 1 /\ IsWordChar(text[p])
RightWord(text, p, D) == p + Len(D) < Len(text) /\ IsWordChar(text[p + Len(D) + 1])

\* C1 as stated: a KB drug is in extract_drugs(T, False) exactly when T has a
\* case-insensitive occurrence of it whose neighbour on each side is the
\* string edge or a non-alphanumeric character.
C1_AlnumBoundary ==
  (Extracted /\ ~alcohol_use) =>
    \A D \in KBNames :
      (D \in Range(drugs)) <=>
        (\E p \in Positions(prescription_text) :
            /\ LiteralAt(prescription_text, p, D)
            /\ ~LeftAlnum(prescription_text, p)
            /\ ~RightAlnum(prescription_text, p, D))

\* C1 amended: a KB drug is in extract_drugs(T, False) exactly when T has a
\* case-insensitive occurrence of it whose neighbour on each side is the
\* string edge or a character that is neither alphanumeric nor an underscore.
C1_WordBoundary ==
  (Extracted /\ ~alcohol_use) =>
    \A D \in KBNames :
      (D \in Range(drugs)) <=>
        (\E p \in Positions(prescription_text) :
            /\ LiteralAt(prescription_text, p, D)
            /\ ~LeftWord(prescription_text, p)
            /\ ~RightWord(prescription_text, p, D))

\* a drug written in another case, after a separator, has been detected
C1_Witness ==
  /\ Extracted /\ ~alcohol_use
  /\ \E D \in Range(drugs) : \E p \in 1..Len(prescription_text) :
        /\ LiteralAt(prescription_text, p, D)
        /\ SubSeq(prescription_text, p + 1, p + Len(D)) # D
        /\ ~LeftWord(prescription_text, p)
        /\ ~RightWord(prescription_text, p, D)

\* the occurrence of D after the first p characters is followed by a hyphen
\* and a further alphanumeric character, as "Aspirin" is in "Aspirin-like"
HyphenSuffixed(text, p, D) ==
  /\ p + Len(D) + 2 <= Len(text)
  /\ text[p + Len(D) + 1] = "-"
  /\ IsAlnum(text[p + Len(D) + 2])

\* C7 as stated: a KB drug whose only mentions in the text are followed by a
\* hyphenated suffix is not in extract_drugs(text, False).
C7_HyphenNotDetected ==
  (Extracted /\ ~alcohol_use) =>
    \A D \in KBNames :
      ( /\ \E p \in Positions(prescription_text) :
              LiteralAt(prescription_text, p, D)
        /\ \A p \in Positions(prescription_text) :
              LiteralAt(prescription_text, p, D)
                => HyphenSuffixed(prescription_text, p, D) )
      => D \notin Range(drugs)

\* C7 amended: a KB drug that occurs at the start of a word and is followed
\* by a hyphenated suffix is in extract_drugs(text, False).
C7_HyphenDetected ==
  (Extracted /\ ~alcohol_use) =>
    \A D \in KBNames :
      (\E p \in Positions(prescription_text) :
          /\ LiteralAt(prescription_text, p, D)
          /\ ~LeftWord(prescription_text, p)
          /\ HyphenSuffixed(prescription_text, p, D))
      => D \in Range(drugs)

\* "Aspirin-like" and its kin: the only mention is hyphen-suffixed, and detected
C7_Witness ==
  /\ Extracted /\ ~alcohol_use
  /\ \E D \in Range(drugs) :
        /\ \A p \in Positions(prescription_text) :
              LiteralAt(prescription_text, p, D)
                => HyphenSuffixed(prescription_text, p, D)

\* C4: extract_drugs(T, True) is extract_drugs(T, False) followed by "Alcohol",
\* and "Alcohol" is never in extract_drugs(T, False), whatever T mentions.
C4_SentinelByFlagOnly ==
  Extracted =>
    IF alcohol_use
    THEN drugs = Append(extract_drugs(prescription_text, FALSE), Alcohol)
    ELSE Alcohol \notin Range(drugs)

\* the text mentions alcohol as a word and a drug
C4_Witness ==
  /\ Extracted /\ alcohol_use
  /\ search(Alcohol, prescription_text)
  /\ \E D \in KBNames : D \in Range(drugs)

\* C5: the list extract_drugs returns contains no name twice.
C5_NoDuplicates ==
  Extracted => \A i, j \in DOMAIN drugs : i # j => drugs[i] # drugs[j]

\* a drug matched at two places of the text is in the list
C5_Witness ==
  /\ Extracted
  /\ \E D \in Range(drugs) :
        Cardinality({p \in Positions(prescription_text) :
                       MatchAt(D, prescription_text, p)}) >= 2

\* C6 as stated: of two detected KB drugs, the one first mentioned earlier in
\* the text comes earlier in the list; the sentinel is last when flagged.
C6_TextOrder ==
  Extracted =>
    /\ \A i, j \in DOMAIN drugs :
         ( /\ drugs[i] \in KBNames /\ drugs[j] \in KBNames
           /\ FirstMatch(drugs[i], prescription_text)
                < FirstMatch(drugs[j], prescription_text) )
         => i < j
    /\ alcohol_use => drugs # <<>> /\ drugs[Len(drugs)] = Alcohol

\* position of a name in DRUG_DB.keys()
KeyIndex(D) == CHOOSE i \in DOMAIN DRUG_DB : DRUG_DB[i][1] = D

\* C6 amended: of two detected KB drugs, the one that comes earlier in the
\* key order of DRUG_DB comes earlier in the list, wherever the text
\* mentions them; the sentinel is last when flagged.
C6_TableOrder ==
  Extracted =>
    /\ \A i, j \in DOMAIN drugs :
         ( /\ drugs[i] \in KBNames /\ drugs[j] \in KBNames
           /\ KeyIndex(drugs[i]) < KeyIndex(drugs[j]) )
         => i < j
    /\ alcohol_use => drugs # <<>> /\ drugs[Len(drugs)] = Alcohol

\* two drugs detected that the text mentions in the opposite order
C6_Witness ==
  /\ Extracted
  /\ Len(drugs) >= 2
  /\ drugs[1] \in KBNames /\ drugs[2] \in KBNames
  /\ FirstMatch(drugs[2], prescription_text)
       < FirstMatch(drugs[1], prescription_text)

----------------------------------------------------------------------------
(* Properties of the resolvers, checked under SpecResolve *)

InteractionsReturned == pc \in {"dosage_suggestions", "alternatives_for", "output"}
DosagesReturned      == pc \in {"alternatives_for", "output"}
AlternativesReturned == pc = "output"

DuplicateFree(ds) == \A i, j \in DOMAIN ds : i # j => ds[i] # ds[j]

\* the index pairs i < j of the list whose two names form an interaction rule
RulePairs(ds) ==
  {ij \in (DOMAIN ds) \X (DOMAIN ds) :
     ij[1] < ij[2] /\ {ds[ij[1]], ds[ij[2]]} \in DOMAIN INTERACTIONS}

LexLess(a, b) == a[1] < b[1] \/ (a[1] = b[1] /\ a[2] < b[2])

\* rank of a rule pair among the rule pairs, in lexicographic order
Rank(ds, ij) == 1 + Cardinality({m \in RulePairs(ds) : LexLess(m, ij)})

\* C2: for a duplicate-free list, find_interactions is the sequence, over the
\* index pairs i < j in lexicographic order whose names form a rule, of
\* "drugs[i] + drugs[j] -> description", lower index first; nothing else.
C2_PairsInListOrder ==
  (InteractionsReturned /\ DuplicateFree(drugs)) =>
    /\ Len(interactions) = Cardinality(RulePairs(drugs))
    /\ \A ij \in RulePairs(drugs) :
         interactions[Rank(drugs, ij)] =
           <<drugs[ij[1]], " + ", drugs[ij[2]], " -> ",
             INTERACTIONS[{drugs[ij[1]], drugs[ij[2]]}]>>

\* two rules matched, the first with its members in the reverse of the order
\* INTERACTIONS writes them, among names that form no rule
C2_Witness ==
  /\ InteractionsReturned /\ DuplicateFree(drugs)
  /\ Len(interactions) = 2
  /\ interactions[1][1] = Ibuprofen

\* the dosage text the table holds for the band of the age
BandText(D, a) ==
  IF a < 18 THEN DictGet(DRUG_DB, D).dosage_child
            ELSE DictGet(DRUG_DB, D).dosage_adult

\* C3: the keys of dosage_suggestions(drugs, age) are exactly the names of
\* drugs that are KB keys; each maps to the pediatric text when age < 18 and
\* to the adult text when age >= 18.
C3_DosageByBand ==
  DosagesReturned =>
    /\ Range(DictKeys(dosages)) = Range(drugs) \cap KBNames
    /\ DuplicateFree(DictKeys(dosages))
    /\ \A i \in DOMAIN dosages : dosages[i][2] = BandText(dosages[i][1], age)

\* age exactly 18, a list with the sentinel and a KB drug
C3_Witness ==
  /\ DosagesReturned
  /\ age = 18
  /\ Alcohol \in Range(drugs)
  /\ dosages # <<>>

\* C8 as stated: dosage_suggestions returns no mapping for an age outside
\* 1..120.
C8_RejectsOutOfRange ==
  DosagesReturned => (1 <= age /\ age <= 120)

\* C8 amended: dosage_suggestions makes no range check; for an age outside
\* 1..120 it returns the mapping of every KB name of the list, to the
\* pediatric text for an age below 1 and to the adult text for an age
\* above 120.
C8_NoRangeCheck ==
  (DosagesReturned /\ (age < 1 \/ age > 120)) =>
    /\ Range(DictKeys(dosages)) = Range(drugs) \cap KBNames
    /\ \A i \in DOMAIN dosages :
         dosages[i][2] = IF age < 1
                         THEN DictGet(DRUG_DB, dosages[i][1]).dosage_child
                         ELSE DictGet(DRUG_DB, dosages[i][1]).dosage_adult

\* a mapping returned for age 121
C8_Witness ==
  /\ DosagesReturned
  /\ age = 121
  /\ dosages # <<>>

\* the record of D has a non-empty alternative text
HasAlternative(D) ==
  /\ "alternative" \in DOMAIN DictGet(DRUG_DB, D)
  /\ DictGet(DRUG_DB, D).alternative # ""

\* C9: the keys of alternatives_for(drugs) are exactly the names of drugs that
\* are KB keys, each mapped to its alternative text when present and
\* non-empty and to "No alternative" otherwise; the key set equals that of
\* dosage_suggestions on the same list.
C9_AlternativeOrFallback ==
  AlternativesReturned =>
    /\ Range(DictKeys(alternatives)) = Range(drugs) \cap KBNames
    /\ DuplicateFree(DictKeys(alternatives))
    /\ \A i \in DOMAIN alternatives :
         alternatives[i][2] =
           IF HasAlternative(alternatives[i][1])
           THEN DictGet(DRUG_DB, alternatives[i][1]).alternative
           ELSE "No alternative"
    /\ Range(DictKeys(alternatives)) = Range(DictKeys(dosages))

\* a list with the sentinel, a drug with an alternative and one without
C9_Witness ==
  /\ AlternativesReturned
  /\ Alcohol \in Range(drugs)
  /\ \E i, j \in DOMAIN alternatives :
        /\ alternatives[i][2] = "No alternative"
        /\ alternatives[j][2] = "Clopidogrel"

----------------------------------------------------------------------------
(* Property of main, checked under Spec *)

\* all characters are decimal digits and the value is in 1..120
ValidAge(entry) ==
  /\ entry # <<>>
  /\ \A i \in DOMAIN entry : entry[i] \in Range(DecimalDigits)
  /\ 1 <= int(entry) /\ int(entry) <= 120

Processing ==
  pc \in {"extract_drugs", "find_interactions", "dosage_suggestions",
          "alternatives_for", "output", "done"}

\* C10: an age entry that is all digits with a value in 1..120 leaves the
\* loop with that value as the age; every other entry prints the error
\* message and prompts again; processing runs with a validated age only.
C10_AgeLoop ==
  /\ [](Processing => ValidAge(age_str) /\ age = int(age_str))
  /\ [][pc = "read_age" =>
          IF ValidAge(age_str')
          THEN /\ pc' = "read_alcohol"
               /\ age' = int(age_str')
               /\ stdout' = Append(stdout, AgePrompt)
          ELSE /\ pc' = "read_age"
               /\ stdout' = stdout \o <<AgePrompt, AgeError>>]_vars

====
